---- MODULE Spec2Model ----
(***************************************************************************)
(* MedStroke backend: the credential service and in-memory session store   *)
(* of backend/auth.py and the status columns of backend/models.py.         *)
(*                                                                         *)
(* Spec      the request handlers of auth.py, one handler per step.        *)
(* SpecConc  the same handlers with /logout split at the point where the   *)
(*           thread pool can switch workers (between the membership test   *)
(*           of line 228 and the del of line 229).                         *)
(* SpecReg   register_patient and register_staff split between the         *)
(*           existence query and the commit, one request per worker.       *)
(* SpecFlow  the Scan status machine of section 4.3 of the design.         *)
(* SpecGen   generate_treatment_plan and refine_treatment_plan of           *)
(*           backend/chatgpt_service.py, split at the external call;        *)
(*           SpecGenFair adds weak fairness of its steps.                   *)
(* SpecClean _clean_markdown applied to texts built from markdown tokens.  *)
(***************************************************************************)
EXTENDS Integers, Sequences, FiniteSets, TLC

(* ------------------------------ inputs -------------------------------- *)
Usernames == {"alice", "bob"}
Passwords == {"pw1", "pw2"}
Roles == {"Patient", "Technician", "Physician"}
\* register_staff accepting every role of the users table
StaffRoles_WithPatient == {"Patient", "Technician", "Physician"}
\* auth.py line 109
StaffRoles == {"Technician", "Physician"}
\* the role form field is a free string
RoleInputs == Roles \cup {"Admin"}
\* the codes the intake side gives to patients rows, in creation order
CodeOf == <<"P-001", "P-002", "P-003">>
MaxRecords == 1
RecordCodes == {CodeOf[i] : i \in 1..MaxRecords}
\* the code form field is a free string
CodeInputs == RecordCodes \cup {"NOPE"}
\* values uuid4 can return
TokenOf == <<"t1", "t2", "t3">>
NumTokens == 2
Tokens == {TokenOf[i] : i \in 1..NumTokens}
\* request.cookies.get("session_id") is None when the cookie is absent
NoCookie == "<absent>"
EmptyCookie == ""
CookieInputs == Tokens \cup {NoCookie, EmptyCookie}

\* NULL of a nullable integer column; None of a failed .first()
NULL == 0

NumWorkers == 2
MaxScans == 2
MaxPlans == 2
MaxTokens == 3
MaxPasses == 2
MaxCalls == 2
MaxMissing == 1

Workers == 1..NumWorkers

\* users            table users: id -> row (ids are 1..Len(users))
\* patients         table patients: id -> [code, linked_user_id]
\* active_sessions  auth.py active_sessions: session_id -> identity
\* last             the request served last and its response
\* pc               SpecConc: position of each /logout worker
\* req_cookie       SpecConc: session_id read by each /logout worker
\* scans            table strokescans: id -> status
\* plans            table treatmentplans: id -> [scan_id, status, ai_generated_plan]
\* flow_last        the workflow request served last and its response
\* md_text          SpecClean: the text handed to _clean_markdown, then its result
\* md_prev          SpecClean: the text before the last _clean_markdown pass
\* md_passes        SpecClean: the number of passes made
\* service          chatgpt_service.py chatgpt_service: the lazily built instance
\* gen              the generate/refine call in progress and its result
\* reg              SpecReg: the registration request each worker is serving
VARIABLES users, patients, active_sessions, last, pc, req_cookie, scans, plans, flow_last, md_text, md_prev, md_passes, service, gen, reg

vars == <<users, patients, active_sessions, last, pc, req_cookie, scans, plans, flow_last,
          md_text, md_prev, md_passes, service, gen, reg>>
authVars == <<users, patients, active_sessions, last>>
concVars == <<pc, req_cookie>>
flowVars == <<scans, plans, flow_last>>
mdVars == <<md_text, md_prev, md_passes>>
genVars == <<service, gen>>
regVars == <<reg>>

(* ------------------------------ tables -------------------------------- *)
\* User(username=..., password=..., role=...)
User(username, password, role) ==
    [username |-> username, password |-> password, role |-> role]

\* a patients row as far as auth.py reads it
Patient(code) == [code |-> code, linked_user_id |-> NULL]

\* the smallest index of a row satisfying the filter, or NULL: .first()
First(S) == IF S = {} THEN NULL ELSE CHOOSE i \in S : \A j \in S : i <= j

\* the duplicate check keyed by (username, role) as the login lookup is
FindUserByName_PatientOnly(us, username) ==
    First({i \in 1..Len(us) : us[i].username = username /\ us[i].role = "Patient"})

\* db.query(User).filter_by(username=username).first()
FindUserByName(us, username) ==
    First({i \in 1..Len(us) : us[i].username = username})

\* the login lookup keyed by username alone
FindUser_IgnoreRole(us, username, role) == FindUserByName(us, username)

\* db.query(User).filter_by(username=username, role=role).first()
FindUser(us, username, role) ==
    First({i \in 1..Len(us) : us[i].username = username /\ us[i].role = role})

\* db.query(Patient).filter_by(code=code).first()
FindPatientByCode(ps, code) ==
    First({i \in 1..Len(ps) : ps[i].code = code})

\* db.query(Patient).filter_by(linked_user_id=user.id).first()
\* a lookup that takes the first patients row, linked to the user or not
FindPatientByUser_Any(ps, uid) ==
    First({i \in 1..Len(ps) : TRUE})

\* db.query(Patient).filter(Patient.linked_user_id == user.id).first()
FindPatientByUser(ps, uid) ==
    First({i \in 1..Len(ps) : ps[i].linked_user_id = uid})

\* the row of register_patient, role="Patient", written by register_staff too
AddUser_PatientRole(us, username, password, role) ==
    Append(us, User(username, password, "Patient"))

\* db.add(user); db.commit(); db.refresh(user): the new row gets the next id
AddUser(us, username, password, role) ==
    Append(us, User(username, password, role))

\* patient.linked_user_id = user.id; db.commit()
LinkPatient(ps, pid, uid) == [ps EXCEPT ![pid].linked_user_id = uid]

(* ------------------------------ session store ------------------------- *)
\* None, where an identity is expected
NoIdentity == [user_id |-> NULL, username |-> "-", role |-> "-"]

\* active_sessions = {}
NoSessions == [t \in {} |-> NoIdentity]

\* {"user_id": user.id, "username": user.username, "role": user.role}
Identity(us, uid) ==
    [user_id |-> uid, username |-> us[uid].username, role |-> us[uid].role]

\* a store that holds one session at a time
PutSession_Single(s, sid, identity) ==
    [t \in {sid} |-> identity]

\* active_sessions[session_id] = identity
PutSession(s, sid, identity) ==
    [t \in DOMAIN s \cup {sid} |-> IF t = sid THEN identity ELSE s[t]]

\* a logout that only clears the cookie
DelSession_Keep(s, sid) == s

\* del active_sessions[session_id], for a key that is present
DelSession(s, sid) == [t \in DOMAIN s \ {sid} |-> s[t]]

(* ---------------------- _clean_markdown ------------------------------- *)
\* a text is a sequence of one-character strings
\* \s of the regular expressions, and what str.strip() removes
WhiteSpace == {" ", "\t", "\n", "\r", "\f"}
\* the character U+0060, which a string of this notation cannot hold
Backtick == "<backtick>"
Digits == {"0", "1", "2", "3", "4", "5", "6", "7", "8", "9"}

\* t[a..b], empty when b < a
Slice(t, a, b) == [k \in 1..(b - a + 1) |-> t[a + k - 1]]

\* ^ under re.MULTILINE: the start of the text and after every newline
LineStart(t, i) == i = 1 \/ t[i - 1] = "\n"

\* the first index from i on whose character is not in S (Len(t)+1 if none)
RECURSIVE SkipWhile(_, _, _)
SkipWhile(t, i, S) ==
    IF i <= Len(t) /\ t[i] \in S THEN SkipWhile(t, i + 1, S) ELSE i

\* the first index from i on whose character is in S (Len(t)+1 if none)
RECURSIVE SkipUntil(_, _, _)
SkipUntil(t, i, S) ==
    IF i <= Len(t) /\ t[i] \notin S THEN SkipUntil(t, i + 1, S) ELSE i

\* m repeated n times stands at index i
HasRun(t, i, m, n) == i + n - 1 <= Len(t) /\ \A k \in i..(i + n - 1) : t[k] = m

\* the first index from i on where m repeated n times stands (0 if none)
RECURSIVE FindRun(_, _, _, _)
FindRun(t, i, m, n) ==
    IF i + n - 1 > Len(t) THEN 0
    ELSE IF HasRun(t, i, m, n) THEN i
    ELSE FindRun(t, i + 1, m, n)

Min(a, b) == IF a < b THEN a ELSE b

\* the end (exclusive) of the match of a pattern that starts at index i, or
\* 0 when the pattern does not match there: [start of match, group start,
\* group end (exclusive), end of match]
NoMatch == [end |-> 0, from |-> 0, to |-> 0]

\* line 26: ^#{1,6}\s*
MatchHeader(t, i) ==
    IF LineStart(t, i) /\ t[i] = "#"
    THEN LET h == Min(SkipWhile(t, i, {"#"}), i + 6)
         IN  [end |-> SkipWhile(t, h, WhiteSpace), from |-> 0, to |-> 0]
    ELSE NoMatch

\* lines 29-30: \*\*(.*?)\*\* and __(.*?)__ with re.DOTALL
MatchBold(t, i, m) ==
    IF HasRun(t, i, m, 2)
    THEN LET k == FindRun(t, i + 2, m, 2)
         IN  IF k = 0 THEN NoMatch ELSE [end |-> k + 2, from |-> i + 2, to |-> k]
    ELSE NoMatch

\* lines 34-35: (?<!\*)\*(?!\*)([^*\n]+?)(?<!\*)\*(?!\*), and the same with _
MatchItalic(t, i, m) ==
    IF t[i] = m /\ (i = 1 \/ t[i - 1] # m)
    THEN LET k == SkipUntil(t, i + 1, {m, "\n"})
         IN  IF /\ k <= Len(t) /\ t[k] = m /\ k >= i + 2
                /\ (k = Len(t) \/ t[k + 1] # m)
             THEN [end |-> k + 1, from |-> i + 1, to |-> k]
             ELSE NoMatch
    ELSE NoMatch

\* line 38: ^[\s]*[-*+]\s+
MatchListMarker(t, i) ==
    IF LineStart(t, i)
    THEN LET p == SkipWhile(t, i, WhiteSpace)
         IN  IF /\ p <= Len(t) /\ t[p] \in {"-", "*", "+"}
                /\ p + 1 <= Len(t) /\ t[p + 1] \in WhiteSpace
             THEN [end |-> SkipWhile(t, p + 1, WhiteSpace), from |-> 0, to |-> 0]
             ELSE NoMatch
    ELSE NoMatch

\* line 41: ^\d+\.\s+
MatchNumbered(t, i) ==
    IF LineStart(t, i) /\ t[i] \in Digits
    THEN LET p == SkipWhile(t, i, Digits)
         IN  IF /\ p <= Len(t) /\ t[p] = "."
                /\ p + 1 <= Len(t) /\ t[p + 1] \in WhiteSpace
             THEN [end |-> SkipWhile(t, p + 1, WhiteSpace), from |-> 0, to |-> 0]
             ELSE NoMatch
    ELSE NoMatch

\* line 44: a fence of three backticks, [\s\S]*?, and the next fence
MatchFence(t, i) ==
    IF HasRun(t, i, Backtick, 3)
    THEN LET k == FindRun(t, i + 3, Backtick, 3)
         IN  IF k = 0 THEN NoMatch ELSE [end |-> k + 3, from |-> 0, to |-> 0]
    ELSE NoMatch

\* line 47: a backtick, ([^backtick]+), a backtick
MatchInlineCode(t, i) ==
    IF t[i] = Backtick
    THEN LET k == SkipUntil(t, i + 1, {Backtick})
         IN  IF k <= Len(t) /\ k >= i + 2
             THEN [end |-> k + 1, from |-> i + 1, to |-> k]
             ELSE NoMatch
    ELSE NoMatch

\* line 50: \[([^\]]+)\]\([^\)]+\)
MatchLink(t, i) ==
    IF t[i] = "["
    THEN LET k == SkipUntil(t, i + 1, {"]"})
             q == SkipUntil(t, k + 2, {")"})
         IN  IF /\ k <= Len(t) /\ k >= i + 2
                /\ k + 1 <= Len(t) /\ t[k + 1] = "("
                /\ q <= Len(t) /\ q >= k + 3
             THEN [end |-> q + 1, from |-> i + 1, to |-> k]
             ELSE NoMatch
    ELSE NoMatch

\* line 53: ^#+\s*
MatchHashes(t, i) ==
    IF LineStart(t, i) /\ t[i] = "#"
    THEN [end |-> SkipWhile(t, SkipWhile(t, i, {"#"}), WhiteSpace),
          from |-> 0, to |-> 0]
    ELSE NoMatch

\* line 56: \n{3,}
MatchBlankLines(t, i) ==
    IF HasRun(t, i, "\n", 3)
    THEN [end |-> SkipWhile(t, i, {"\n"}), from |-> 0, to |-> 0]
    ELSE NoMatch

\* line 57: [ \t]+
MatchSpaces(t, i) ==
    IF t[i] \in {" ", "\t"}
    THEN [end |-> SkipWhile(t, i, {" ", "\t"}), from |-> 0, to |-> 0]
    ELSE NoMatch

Match(pat, t, i) ==
    CASE pat = "header" -> MatchHeader(t, i)
      [] pat = "bold*" -> MatchBold(t, i, "*")
      [] pat = "bold_" -> MatchBold(t, i, "_")
      [] pat = "italic*" -> MatchItalic(t, i, "*")
      [] pat = "italic_" -> MatchItalic(t, i, "_")
      [] pat = "list" -> MatchListMarker(t, i)
      [] pat = "numbered" -> MatchNumbered(t, i)
      [] pat = "fence" -> MatchFence(t, i)
      [] pat = "code" -> MatchInlineCode(t, i)
      [] pat = "link" -> MatchLink(t, i)
      [] pat = "hashes" -> MatchHashes(t, i)
      [] pat = "blank" -> MatchBlankLines(t, i)
      [] pat = "spaces" -> MatchSpaces(t, i)

\* the replacement argument of each re.sub
Replacement(pat, t, m) ==
    CASE pat \in {"bold*", "bold_", "italic*", "italic_", "code", "link"} ->
             Slice(t, m.from, m.to - 1)
      [] pat = "blank" -> <<"\n", "\n">>
      [] pat = "spaces" -> <<" ">>
      [] OTHER -> <<>>

\* re.sub(pattern, replacement, text): the leftmost matches, left to right,
\* without overlap; every pattern here matches at least one character
RECURSIVE SubFrom(_, _, _)
SubFrom(pat, t, i) ==
    IF i > Len(t) THEN <<>>
    ELSE LET m == Match(pat, t, i)
         IN  IF m.end = 0 THEN <<t[i]>> \o SubFrom(pat, t, i + 1)
             ELSE Replacement(pat, t, m) \o SubFrom(pat, t, m.end)

Sub(pat, t) == SubFrom(pat, t, 1)

\* text.strip()
Strip(t) ==
    LET a == SkipWhile(t, 1, WhiteSpace)
        keep == {k \in 1..Len(t) : t[k] \notin WhiteSpace}
    IN  IF keep = {} THEN <<>>
        ELSE Slice(t, a, CHOOSE k \in keep : \A j \in keep : j <= k)

\* lines 60-61: every line of text.split(newline) stripped, then joined: a
\* character stays when it is a newline, or when its line has a character
\* that is not white space at or before it and one at or after it
InLine(t, i, k) ==
    \A j \in (Min(i, k))..(IF i < k THEN k ELSE i) : t[j] # "\n"

StripLines(t) ==
    LET stays(i) ==
            \/ t[i] = "\n"
            \/ /\ \E k \in 1..i : t[k] \notin WhiteSpace /\ InLine(t, i, k)
               /\ \E k \in i..Len(t) : t[k] \notin WhiteSpace /\ InLine(t, i, k)
    IN  SelectSeq([i \in 1..Len(t) |-> <<i, t[i]>>], LAMBDA p : stays(p[1]))

Chars(ps) == [i \in 1..Len(ps) |-> ps[i][2]]

\* the re.sub calls of lines 26-57, in order
CleanSteps ==
    <<"header", "bold*", "bold_", "italic*", "italic_", "list", "numbered",
      "fence", "code", "link", "hashes", "blank", "spaces">>

RECURSIVE ApplySteps(_, _, _)
ApplySteps(steps, t, n) ==
    IF n > Len(steps) THEN t ELSE ApplySteps(steps, Sub(steps[n], t), n + 1)

\* _clean_markdown(text)
_clean_markdown(text) ==
    IF text = <<>> THEN text
    ELSE Strip(Chars(StripLines(ApplySteps(CleanSteps, text, 1))))

(* ------------------------------ responses ----------------------------- *)
NoRedirect == <<>>

Response(op, username, password, role, code, cookie, outcome, sid, redirect) ==
    [op |-> op, username |-> username, password |-> password, role |-> role,
     code |-> code, cookie |-> cookie, outcome |-> outcome,
     session_id |-> sid, redirect |-> redirect]

NoResponse == Response("none", "-", "-", "-", "-", NoCookie, "-", NoCookie, NoRedirect)

(* --------------------------- Scan status ------------------------------ *)
\* a column default that skips the technician's step
ScanDefaultStatus_Ready == "ready_for_review"

\* status = Column(String, default="pending")
ScanDefaultStatus == "pending"

ScanStatuses == {"pending", "ready_for_review", "reviewed"}

\* pending -> ready_for_review -> reviewed
ScanSteps == {<<"pending", "ready_for_review">>, <<"ready_for_review", "reviewed">>}

\* the role that may take a step: a technician submits findings, a
\* physician records the review
ScanStepRole(requested) ==
    IF requested = "ready_for_review" THEN "Technician" ELSE "Physician"

\* a transition is a total function of (current status, requested status,
\* caller role); an unrecognized pair fails with InvalidTransition
ScanTransitionOutcome(current, requested, role) ==
    IF <<current, requested>> \notin ScanSteps THEN "InvalidTransition"
    ELSE IF role # ScanStepRole(requested) THEN "Forbidden"
    ELSE "ok"

(* ------------------------ TreatmentPlan status ------------------------ *)
\* status = Column(String, default="draft")
\* a status column whose default is the final status of a reviewed plan
PlanDefaultStatus_Approved == "approved"

\* models.py line 124: status = Column(String, default="draft")
PlanDefaultStatus == "draft"

PlanStatuses == {"draft", "approved", "implemented"}

\* a plan table that also lets an approved plan be reopened
PlanSteps_Reopen ==
    {<<"draft", "approved">>, <<"approved", "implemented">>, <<"approved", "draft">>}

\* draft -> approved -> implemented
PlanSteps == {<<"draft", "approved">>, <<"approved", "implemented">>}

\* both steps are the physician's; draft -> approved requires non-empty
\* generated text; an unrecognized pair fails with InvalidTransition
PlanTransitionOutcome(current, requested, role, text) ==
    IF <<current, requested>> \notin PlanSteps THEN "InvalidTransition"
    ELSE IF role # "Physician" THEN "Forbidden"
    ELSE IF requested = "approved" /\ text = "" THEN "InvalidTransition"
    ELSE "ok"

\* a new treatmentplans row for a scan: the status takes the column
\* default and ai_generated_plan is not written yet
TreatmentPlan(scan_id) ==
    [scan_id |-> scan_id, status |-> PlanDefaultStatus, ai_generated_plan |-> ""]

FlowResponse(op, scan, from, requested, role, outcome) ==
    [op |-> op, scan |-> scan, from |-> from, requested |-> requested,
     role |-> role, outcome |-> outcome]

NoFlowResponse == FlowResponse("none", NULL, "-", "-", "-", "-")

(* --------------------- ChatGPTTreatmentPlanService -------------------- *)
\* os.getenv("OPENAI_API_KEY"): None when the variable is not set
NoEnv == "<unset>"
PlaceholderKey == "your_openai_api_key_here"
EnvKeys == {NoEnv, "", PlaceholderKey, "sk-live"}

\* self.api_key = None
NoKey == "<None>"

\* __init__ without the test for the placeholder of the .env template
ApiKey_KeepsPlaceholder(env) ==
    IF env = NoEnv \/ env = "" THEN NoKey ELSE env

\* __init__, lines 11-16: self.api_key
ApiKey(env) ==
    IF env = NoEnv \/ env = "" \/ env = PlaceholderKey THEN NoKey ELSE env

\* chatgpt_service = None
NoService == [built |-> FALSE, env |-> NoEnv, api_key |-> NoKey]

\* ChatGPTTreatmentPlanService()
ChatGPTTreatmentPlanService(env) ==
    [built |-> TRUE, env |-> env, api_key |-> ApiKey(env)]

\* the text returned at lines 71 and 214
NotConfiguredText ==
    <<"AI service is not configured. Please set OPENAI_API_KEY environment variable.">>

\* the f-strings of lines 105 and 256
ErrorText(op, exc) ==
    IF op = "generate"
    THEN <<"Error generating treatment plan: ", exc>>
    ELSE <<"Error refining treatment plan: ", exc>>

\* what can go wrong inside the try blocks: the API call raises, the
\* request times out inside the client library, response.choices is empty
\* (IndexError), message.content is None or patient_data is None
\* (AttributeError)
Failures == {"APIError", "Timeout", "IndexError", "AttributeError"}

\* a handler for the errors of the client library only
CaughtByHandler_ClientErrors(exc) == exc \in {"APIError", "Timeout"}

\* except Exception, lines 104 and 255: every failure above is an Exception
CaughtByHandler(exc) == exc \in Failures

\* response.choices[0].message.content, as the generator may answer
RawTexts ==
    {<<"a">>, <<" ", "#", " ", "a", "\n">>, <<"*", "*", "a", "*", "*", " ", "b">>,
     <<"-", " ", "a", "\n", "-", " ", "b">>, <<"1", ".", " ", "b", " ", " ", "a">>,
     <<" ", "\n">>}

\* lines 97-100 and 248-251: the content of the first choice, stripped and
\* cleaned, for each text the generator may answer
CleanedContent == [raw \in RawTexts |-> _clean_markdown(Strip(raw))]

\* what the external call does: answers with a text, fails, or stays silent
GeneratorAnswers ==
    [kind : {"text"}, raw : RawTexts, exc : {"-"}]
        \cup [kind : {"failure"}, raw : {<<>>}, exc : Failures]

\* the clinical fields of the two prompts: seven keys of patient_data and
\* the prediction key of scan_data (lines 114-120 and 145-149)
Fields ==
    {"age", "gender", "time_since_onset", "systolic_bp", "diastolic_bp",
     "glucose", "inr", "prediction"}

\* a key of the context: not in the dict, in the dict with the value None
\* (a nullable column that was never filled), or in the dict with a value
FieldStates == {"absent", "None", "value"}

\* the contexts a call is made with: at most MaxMissing fields lack a value
Contexts ==
    UNION {{[f \in Fields |-> IF f \in S THEN k[f] ELSE "value"] :
                k \in [S -> FieldStates \ {"value"}]} :
           S \in {T \in SUBSET Fields : Cardinality(T) <= MaxMissing}}

NoContext == [f \in Fields |-> "absent"]

\* dict.get(key, 'N/A') inside the f-string: the default is taken only
\* when the key is not in the dict; a None value is formatted as its str
RenderField(context, f) ==
    IF context[f] = "absent" THEN "N/A"
    ELSE IF context[f] = "None" THEN "None"
    ELSE "<value>"

RenderPrompt(template, context) ==
    [template |-> template, fields |-> [f \in Fields |-> RenderField(context, f)]]

\* lines 107-136
_create_tpa_eligible_prompt(context) == RenderPrompt("tpa_eligible", context)

\* lines 138-207
_create_not_eligible_prompt(context) == RenderPrompt("not_eligible", context)

\* no prompt built
NoPrompt == [template |-> "-", fields |-> [f \in Fields |-> "-"]]

\* no call in progress; calls counts the requests sent to the generator
\* since the process started
NoCall ==
    [pc |-> "idle", op |-> "-", is_eligible |-> FALSE, patient_data |-> "-",
     context |-> NoContext, prompt |-> NoPrompt,
     silent |-> FALSE, calls |-> 0, failure |-> "-", result |-> <<>>]

\* the end of a call: `return text`, or the exception leaves the method
Finish(call, exc, text) ==
    IF exc = "-"
    THEN [call EXCEPT !.pc = "returned", !.result = text]
    ELSE IF CaughtByHandler(exc)
    THEN [call EXCEPT !.pc = "returned", !.failure = exc,
                      !.result = ErrorText(call.op, exc)]
    ELSE [call EXCEPT !.pc = "raised", !.failure = exc]

(* ------------- registration requests on the thread pool -------------- *)
\* a worker that is serving no registration; outcome and username keep
\* what its last request ended with when the commit was refused
NoRequest ==
    [pc |-> "idle", role |-> "-", username |-> "-", code |-> "-", outcome |-> "-"]

\* a users table without the unique index on username
UniqueViolation_NoIndex(us, username) == FALSE

\* models.py line 12: username = Column(String, unique=True, index=True):
\* the commit of a second row with the same username raises IntegrityError
UniqueViolation(us, username) ==
    \E i \in 1..Len(us) : us[i].username = username

(* ------------------------------ Init ---------------------------------- *)
\* patients rows are created by the intake side before any account exists,
\* with unique codes and linked_user_id NULL (a code without a row is the
\* input "NOPE"); users and active_sessions start empty
Init ==
    /\ users = <<>>
    /\ patients = [i \in 1..MaxRecords |-> Patient(CodeOf[i])]
    /\ active_sessions = NoSessions
    /\ last = NoResponse
    /\ pc = [w \in Workers |-> "idle"]
    /\ req_cookie = [w \in Workers |-> NoCookie]
    /\ scans = <<>>
    /\ plans = <<>>
    /\ flow_last = NoFlowResponse
    /\ md_text = <<>>
    /\ md_prev = <<>>
    /\ md_passes = 0
    /\ service = NoService
    /\ gen = NoCall
    /\ reg = [w \in Workers |-> NoRequest]

(* ------------------------- POST /register ----------------------------- *)
register_patient(username, password, code) ==
    LET existing == FindUserByName(users, username)
        us2 == AddUser(users, username, password, "Patient")
        uid == Len(us2)
        patient == FindPatientByCode(patients, code)
    IN  IF existing # NULL
        THEN /\ last' = Response("register", username, password, "Patient", code,
                                 NoCookie, "DuplicateUsername", NoCookie, NoRedirect)
             /\ UNCHANGED <<users, patients, active_sessions>>
        ELSE /\ users' = us2
             /\ IF patient # NULL
                THEN /\ patients' = LinkPatient(patients, patient, uid)
                     /\ last' = Response("register", username, password, "Patient", code,
                                         NoCookie, "linked", NoCookie, NoRedirect)
                ELSE /\ patients' = patients
                     /\ last' = Response("register", username, password, "Patient", code,
                                         NoCookie, "pending link", NoCookie, NoRedirect)
             /\ UNCHANGED active_sessions

(* ----------------------- POST /register-staff ------------------------- *)
register_staff(username, password, role) ==
    LET existing == FindUserByName(users, username)
        Reply(outcome) == Response("registerStaff", username, password, role, "-",
                                   NoCookie, outcome, NoCookie, NoRedirect)
    IN  IF role \notin StaffRoles
        THEN /\ last' = Reply("InvalidRole")
             /\ UNCHANGED <<users, patients, active_sessions>>
        ELSE IF existing # NULL
        THEN /\ last' = Reply("DuplicateUsername")
             /\ UNCHANGED <<users, patients, active_sessions>>
        ELSE /\ users' = AddUser(users, username, password, role)
             /\ last' = Reply("created")
             /\ UNCHANGED <<patients, active_sessions>>

(* ------- POST /register and /register-staff, two requests at once ----- *)
\* register_patient and register_staff are plain defs: each request runs
\* on a worker thread with its own db session, and another request can
\* commit between the existence query (lines 65, 118) and the commit of
\* the new row (lines 77, 129)
RegisterCheck(w, role, username, code) ==
    /\ reg[w].pc = "idle"
    /\ reg' = [reg EXCEPT ![w] =
                  IF FindUserByName(users, username) # NULL
                  THEN NoRequest
                  ELSE [pc |-> "checked", role |-> role, username |-> username,
                        code |-> IF role = "Patient" THEN code ELSE "-",
                        outcome |-> "-"]]
    /\ UNCHANGED <<users, patients>>

\* lines 75-86 and 127-130: the commit of the new row, refused by the
\* unique index when the username has been taken meanwhile (the exception
\* leaves the handler before the linking code is looked up)
RegisterInsert(w) ==
    LET r == reg[w]
        us2 == AddUser(users, r.username, "pw1", r.role)
        patient == FindPatientByCode(patients, r.code)
    IN  /\ r.pc = "checked"
        /\ IF UniqueViolation(users, r.username)
           THEN /\ reg' = [reg EXCEPT ![w] =
                              [NoRequest EXCEPT !.username = r.username,
                                                !.outcome = "IntegrityError"]]
                /\ UNCHANGED <<users, patients>>
           ELSE /\ users' = us2
                /\ patients' = IF r.role = "Patient" /\ patient # NULL
                               THEN LinkPatient(patients, patient, Len(us2))
                               ELSE patients
                /\ reg' = [reg EXCEPT ![w] = NoRequest]

RegisterCheckStep ==
    \E w \in Workers, role \in Roles, username \in Usernames, code \in CodeInputs :
        RegisterCheck(w, role, username, code)

RegisterInsertStep == \E w \in Workers : RegisterInsert(w)

NextReg ==
    \/ RegisterCheckStep
         /\ UNCHANGED <<active_sessions, last, concVars, flowVars, mdVars, genVars>>
    \/ RegisterInsertStep
         /\ UNCHANGED <<active_sessions, last, concVars, flowVars, mdVars, genVars>>

SpecReg == Init /\ [][NextReg]_vars

\* C21: when registrations for the same new username interleave, at most
\* one account with that username exists afterwards, and a request whose
\* username was taken between its check and its insert creates no account
\* and sets no back-reference.
C21_UsernamesUniqueUnderRaces ==
    [][/\ \A i, j \in 1..Len(users') :
              users'[i].username = users'[j].username => i = j
       /\ \A w \in Workers :
              (/\ reg[w].pc = "checked" /\ reg'[w].pc = "idle"
               /\ \E i \in 1..Len(users) : users[i].username = reg[w].username) =>
                  (users' = users /\ patients' = patients)]_vars

C21_Witness ==
    \E w \in Workers :
        /\ reg[w].outcome = "IntegrityError"
        /\ Cardinality({i \in 1..Len(users) : users[i].username = reg[w].username}) = 1
        /\ \E p \in 1..Len(patients) : patients[p].linked_user_id # NULL

(* --------------------------- POST /login ------------------------------ *)
\* the response of login, as a function of the tables and the form fields
LoginOutcome(us, ps, username, password, role) ==
    LET user == FindUser(us, username, role)
    IN  IF user = NULL THEN "UserNotFound"
        ELSE IF us[user].password # password THEN "InvalidCredential"
        ELSE IF role = "Patient"
             THEN IF FindPatientByUser(ps, user) = NULL
                  THEN "NoLinkedRecord" ELSE "redirect"
        ELSE IF role \in {"Technician", "Physician"} THEN "redirect"
        ELSE "InvalidRole"

\* a redirect that sends every staff member to the physician dashboard
LoginRedirect_NoTechnician(ps, user, role) ==
    IF role = "Patient"
    THEN <<"/patient-view?code=", ps[FindPatientByUser(ps, user)].code>>
    ELSE <<"/physician-dashboard">>

\* redirect_url
LoginRedirect(ps, user, role) ==
    IF role = "Patient"
    THEN <<"/patient-view?code=", ps[FindPatientByUser(ps, user)].code>>
    ELSE IF role = "Technician" THEN <<"/technician-dashboard">>
    ELSE <<"/physician-dashboard">>

\* the session is stored once the password has matched (lines 171-177),
\* before the role-dependent redirect is computed
LoginStoresSession(outcome) ==
    outcome \notin {"UserNotFound", "InvalidCredential"}

\* session_id = str(uuid.uuid4()): a value no live session has
login(username, password, role, sid) ==
    LET user == FindUser(users, username, role)
        outcome == LoginOutcome(users, patients, username, password, role)
    IN  /\ sid \notin DOMAIN active_sessions
        /\ active_sessions' =
              IF LoginStoresSession(outcome)
              THEN PutSession(active_sessions, sid, Identity(users, user))
              ELSE active_sessions
        /\ last' = IF outcome = "redirect"
                   THEN Response("login", username, password, role, "-", NoCookie,
                                 outcome, sid, LoginRedirect(patients, user, role))
                   ELSE Response("login", username, password, role, "-", NoCookie,
                                 outcome, NoCookie, NoRedirect)
        /\ UNCHANGED <<users, patients>>

(* ------------------------ GET /current-user --------------------------- *)
\* get_current_user: the identity of the cookie's session, or None
get_current_user(s, cookie) ==
    IF cookie # NoCookie /\ cookie # EmptyCookie /\ cookie \in DOMAIN s
    THEN s[cookie] ELSE NoIdentity

get_current_user_info(cookie) ==
    LET user_info == get_current_user(active_sessions, cookie)
    IN  /\ last' = Response("currentUser", "-", "-", "-", "-", cookie,
                            IF user_info = NoIdentity THEN "Unauthenticated" ELSE "identity",
                            NoCookie, NoRedirect)
        /\ UNCHANGED <<users, patients, active_sessions>>

(* --------------------------- POST /logout ----------------------------- *)
\* line 228 without the membership test
LogoutGuard_NoMembership(s, cookie) ==
    cookie # NoCookie /\ cookie # EmptyCookie

\* line 228: `session_id and session_id in active_sessions`
LogoutGuard(s, cookie) ==
    cookie # NoCookie /\ cookie # EmptyCookie /\ cookie \in DOMAIN s

\* line 229 on a store s: del raises KeyError for a key that is not in the
\* dict and leaves the dict as it is
DelOutcome(s, cookie) ==
    IF cookie \in DOMAIN s THEN "redirect" ELSE "KeyError"

\* lines 228-229 on a store s: the store afterwards
LogoutStore(s, cookie) ==
    IF LogoutGuard(s, cookie) THEN DelSession(s, cookie) ELSE s

\* lines 228-233 on a store s: the response
LogoutOutcome(s, cookie) ==
    IF LogoutGuard(s, cookie) THEN DelOutcome(s, cookie) ELSE "redirect"

LogoutResponse(cookie, outcome) ==
    Response("logout", "-", "-", "-", "-", cookie, outcome, NoCookie, NoRedirect)

logout(cookie) ==
    /\ active_sessions' = LogoutStore(active_sessions, cookie)
    /\ last' = LogoutResponse(cookie, LogoutOutcome(active_sessions, cookie))
    /\ UNCHANGED <<users, patients>>

(* ---------------- POST /logout on the thread pool --------------------- *)
\* logout is a plain def: each request runs on a worker thread, and the
\* interpreter can switch threads between line 228 and line 229
LogoutTest(w, cookie) ==
    /\ pc[w] = "idle"
    /\ IF LogoutGuard(active_sessions, cookie)
       THEN /\ pc' = [pc EXCEPT ![w] = "del"]
            /\ req_cookie' = [req_cookie EXCEPT ![w] = cookie]
            /\ UNCHANGED last
       ELSE /\ last' = LogoutResponse(cookie, "redirect")
            /\ UNCHANGED <<pc, req_cookie>>
    /\ UNCHANGED <<users, patients, active_sessions>>

LogoutDelete(w) ==
    /\ pc[w] = "del"
    /\ active_sessions' = DelSession(active_sessions, req_cookie[w])
    /\ last' = LogoutResponse(req_cookie[w], DelOutcome(active_sessions, req_cookie[w]))
    /\ pc' = [pc EXCEPT ![w] = "idle"]
    /\ req_cookie' = [req_cookie EXCEPT ![w] = NoCookie]
    /\ UNCHANGED <<users, patients>>

(* ------------------------------ Spec ---------------------------------- *)
Register == \E u \in Usernames, p \in Passwords, c \in CodeInputs :
                register_patient(u, p, c)
RegisterStaff == \E u \in Usernames, p \in Passwords, r \in RoleInputs :
                     register_staff(u, p, r)
Login == \E u \in Usernames, p \in Passwords, r \in Roles, t \in Tokens :
             login(u, p, r, t)
CurrentUser == \E c \in CookieInputs : get_current_user_info(c)
Logout == \E c \in CookieInputs : logout(c)

Next ==
    \/ Register /\ UNCHANGED <<concVars, flowVars, mdVars, genVars, regVars>>
    \/ RegisterStaff /\ UNCHANGED <<concVars, flowVars, mdVars, genVars, regVars>>
    \/ Login /\ UNCHANGED <<concVars, flowVars, mdVars, genVars, regVars>>
    \/ CurrentUser /\ UNCHANGED <<concVars, flowVars, mdVars, genVars, regVars>>
    \/ Logout /\ UNCHANGED <<concVars, flowVars, mdVars, genVars, regVars>>

Spec == Init /\ [][Next]_vars

LogoutTestStep == \E w \in Workers, c \in CookieInputs : LogoutTest(w, c)
LogoutDeleteStep == \E w \in Workers : LogoutDelete(w)

NextConc ==
    \/ RegisterStaff /\ UNCHANGED <<concVars, flowVars, mdVars, genVars, regVars>>
    \/ Login /\ UNCHANGED <<concVars, flowVars, mdVars, genVars, regVars>>
    \/ LogoutTestStep /\ UNCHANGED <<flowVars, mdVars, genVars, regVars>>
    \/ LogoutDeleteStep /\ UNCHANGED <<flowVars, mdVars, genVars, regVars>>

SpecConc == Init /\ [][NextConc]_vars

(* --------------------------- workflow --------------------------------- *)
\* a new strokescans row takes the column default
CreateScan ==
    /\ Len(scans) < MaxScans
    /\ scans' = Append(scans, ScanDefaultStatus)
    /\ flow_last' = FlowResponse("createScan", Len(scans) + 1, "-", "-", "-", "ok")
    /\ UNCHANGED plans

ScanTransition(id, requested, role) ==
    LET outcome == ScanTransitionOutcome(scans[id], requested, role)
    IN  /\ scans' = IF outcome = "ok" THEN [scans EXCEPT ![id] = requested] ELSE scans
        /\ flow_last' = FlowResponse("transition", id, scans[id], requested, role, outcome)
        /\ UNCHANGED plans

ScanTransitionStep ==
    \E id \in 1..Len(scans), requested \in ScanStatuses, role \in Roles :
        ScanTransition(id, requested, role)

\* a plan is created for a scan that is ready_for_review or later and has
\* no plan yet (the plan relation of a scan is single-valued)
CreatePlan(scan) ==
    /\ Len(plans) < MaxPlans
    /\ scans[scan] \in {"ready_for_review", "reviewed"}
    /\ \A p \in 1..Len(plans) : plans[p].scan_id # scan
    /\ plans' = Append(plans, TreatmentPlan(scan))
    /\ flow_last' = FlowResponse("createPlan", Len(plans) + 1, "-", "-", "-", "ok")
    /\ UNCHANGED scans

\* a generation or refinement call writes ai_generated_plan
SetPlanText(id) ==
    /\ plans[id].ai_generated_plan = ""
    /\ plans' = [plans EXCEPT ![id].ai_generated_plan = "plan"]
    /\ flow_last' = FlowResponse("setPlanText", id, "-", "-", "-", "ok")
    /\ UNCHANGED scans

PlanTransition(id, requested, role) ==
    LET outcome == PlanTransitionOutcome(plans[id].status, requested, role,
                                         plans[id].ai_generated_plan)
    IN  /\ plans' = IF outcome = "ok" THEN [plans EXCEPT ![id].status = requested]
                    ELSE plans
        /\ flow_last' = FlowResponse("planTransition", id, plans[id].status,
                                     requested, role, outcome)
        /\ UNCHANGED scans

CreatePlanStep == \E scan \in 1..Len(scans) : CreatePlan(scan)
SetPlanTextStep == \E id \in 1..Len(plans) : SetPlanText(id)
PlanTransitionStep ==
    \E id \in 1..Len(plans), requested \in PlanStatuses, role \in Roles :
        PlanTransition(id, requested, role)

NextFlow ==
    \/ CreateScan /\ UNCHANGED <<authVars, concVars, mdVars, genVars, regVars>>
    \/ ScanTransitionStep /\ UNCHANGED <<authVars, concVars, mdVars, genVars, regVars>>
    \/ CreatePlanStep /\ UNCHANGED <<authVars, concVars, mdVars, genVars, regVars>>
    \/ SetPlanTextStep /\ UNCHANGED <<authVars, concVars, mdVars, genVars, regVars>>
    \/ PlanTransitionStep /\ UNCHANGED <<authVars, concVars, mdVars, genVars, regVars>>

SpecFlow == Init /\ [][NextFlow]_vars

(* ====================== properties of auth.py ========================= *)
LoginFailures == {"UserNotFound", "InvalidCredential", "NoLinkedRecord"}
RegisterSuccesses == {"linked", "pending link", "created"}

\* the account the login form names with its correct password, whatever
\* the role field says
AccountWithPassword(us, username, password) ==
    {i \in 1..Len(us) : us[i].username = username /\ us[i].password = password}

\* the records whose back-reference points to the account
LinkedRecords(ps, uid) == {i \in 1..Len(ps) : ps[i].linked_user_id = uid}

\* C1: once a ClinicalRecord's back-reference to an Account is set, no
\* later register call changes it (first successful link wins).
C1_BackReferenceSetOnce ==
    [][\A i \in 1..Len(patients) :
          patients[i].linked_user_id # NULL =>
              patients'[i].linked_user_id = patients[i].linked_user_id]_vars

\* C2: a login that fails with UserNotFound, InvalidCredential or
\* NoLinkedRecord leaves the session store as it was.
C2_FailedLoginIssuesNoSession ==
    [][(last'.op = "login" /\ last'.outcome \in LoginFailures) =>
          active_sessions' = active_sessions]_vars

\* C3: a Patient login with correct credentials fails with NoLinkedRecord
\* exactly when no record is linked to the account and succeeds when one
\* is, and an account that has a linked record (linking happens only at
\* registration) can still log in successfully after every later step.
C3_PatientLoginFollowsLink ==
    [][/\ \A u \in 1..Len(users) :
              (/\ last'.op = "login" /\ last'.role = "Patient"
               /\ users[u].role = "Patient"
               /\ last'.username = users[u].username
               /\ last'.password = users[u].password) =>
                  last'.outcome = IF LinkedRecords(patients, u) = {}
                                  THEN "NoLinkedRecord" ELSE "redirect"
       /\ \A u \in 1..Len(users) :
              (users[u].role = "Patient" /\ LinkedRecords(patients, u) # {}) =>
                  LoginOutcome(users', patients', users[u].username,
                               users[u].password, "Patient") = "redirect"]_vars

\* C4: login with an existing username and its correct password but a role
\* different from the account's role fails with UserNotFound, never with
\* InvalidCredential.
C4_WrongRoleIsUserNotFound ==
    [][(/\ last'.op = "login"
        /\ \E u \in AccountWithPassword(users, last'.username, last'.password) :
               users[u].role # last'.role) =>
          last'.outcome = "UserNotFound"]_vars

C4_Witness ==
    /\ last.op = "login" /\ last.outcome = "UserNotFound"
    /\ \E u \in AccountWithPassword(users, last.username, last.password) :
           users[u].role # last.role

\* the login that directly follows a successful registration, with the
\* same username, password and role
LoginAfterRegister(outcomes) ==
    /\ last.op \in {"register", "registerStaff"} /\ last.outcome \in outcomes
    /\ last'.op = "login"
    /\ last'.username = last.username
    /\ last'.password = last.password
    /\ last'.role = last.role

LoginStoredSessionOfRole ==
    /\ last'.outcome = "redirect"
    /\ last'.session_id \in DOMAIN active_sessions'
    /\ active_sessions'[last'.session_id].role = last.role

\* C5 as stated: register or registerStaff with a new username, followed by
\* login with the same username, password and role, succeeds and stores a
\* session with the registered role.
C5_RegisterThenLogin ==
    [][LoginAfterRegister(RegisterSuccesses) => LoginStoredSessionOfRole]_vars

\* C5 as amended: the same, for registerStaff and for a register whose
\* linking code matched a ClinicalRecord.
C5_LinkedRegisterThenLogin ==
    [][LoginAfterRegister({"linked", "created"}) => LoginStoredSessionOfRole]_vars

C5_Witness ==
    /\ last.op = "login" /\ last.outcome = "redirect"
    /\ Len(users) = 1 /\ users[1].role = last.role
    /\ last.session_id \in DOMAIN active_sessions
    /\ active_sessions[last.session_id].role = users[1].role

\* a registration request for a username that is taken
DuplicateRequest(ops, roles) ==
    /\ last'.op \in ops /\ last'.role \in roles
    /\ \E u \in 1..Len(users) : users[u].username = last'.username

\* C6 as stated: register and registerStaff with a username that is taken
\* fail with DuplicateUsername and change no account and no back-reference.
C6_DuplicateChangesNothing ==
    [][DuplicateRequest({"register", "registerStaff"}, RoleInputs) =>
          (last'.outcome = "DuplicateUsername"
           /\ users' = users /\ patients' = patients)]_vars

\* C6 as amended: register, and registerStaff with a role in {Technician,
\* Physician}, with a username that is taken fail with DuplicateUsername;
\* registerStaff with any other role fails with InvalidRole; in both cases
\* no account and no back-reference changes.
C6_DuplicateValidRoleChangesNothing ==
    [][/\ DuplicateRequest({"register", "registerStaff"}, RoleInputs) =>
              (users' = users /\ patients' = patients)
       /\ (DuplicateRequest({"register"}, {"Patient"})
           \/ DuplicateRequest({"registerStaff"}, StaffRoles)) =>
              last'.outcome = "DuplicateUsername"
       /\ DuplicateRequest({"registerStaff"}, RoleInputs \ StaffRoles) =>
              last'.outcome = "InvalidRole"]_vars

C6_Witness ==
    /\ last.outcome = "DuplicateUsername"
    /\ \/ /\ last.op = "register"
          /\ \E i \in 1..Len(patients) : patients[i].code = last.code
       \/ /\ last.op = "registerStaff"
          /\ \E u \in 1..Len(users) :
                 users[u].username = last.username /\ users[u].role # last.role

\* C7: after logout(token) the token has no entry, currentIdentity(token)
\* is none and the current-identity request fails with Unauthenticated,
\* and a token without an entry gets one only by a login.
C7_LogoutRemovesToken ==
    [][/\ last'.op = "logout" =>
              (/\ last'.cookie \notin DOMAIN active_sessions'
               /\ get_current_user(active_sessions', last'.cookie) = NoIdentity)
       /\ \A t \in Tokens :
              (t \notin DOMAIN active_sessions /\ t \in DOMAIN active_sessions') =>
                  last'.op = "login"
       /\ last'.op = "currentUser" =>
              (last'.outcome = "Unauthenticated"
                   <=> last'.cookie \notin DOMAIN active_sessions)]_vars

C7_Witness ==
    /\ last.op = "logout" /\ last.cookie \in Tokens
    /\ last.cookie \notin DOMAIN active_sessions
    /\ active_sessions # NoSessions

\* C8: logout never fails; on a token with no entry, or with no cookie, it
\* leaves the session store unchanged; and a second logout of the same
\* token leaves the store as the first one left it.
C8_LogoutIdempotent ==
    [][last'.op = "logout" =>
          (/\ last'.outcome = "redirect"
           /\ last'.cookie \notin DOMAIN active_sessions =>
                  active_sessions' = active_sessions
           /\ LogoutStore(active_sessions', last'.cookie) = active_sessions'
           /\ LogoutOutcome(active_sessions', last'.cookie) = "redirect")]_vars

C8_Witness ==
    /\ last.op = "logout" /\ last.outcome = "redirect"
    /\ last.cookie \in Tokens /\ last.cookie \notin DOMAIN active_sessions
    /\ \E t \in Tokens : t \in DOMAIN active_sessions

\* C9: two logout requests for the same token on two workers both complete
\* without error, and the token has no entry afterwards.
C9_ConcurrentLogoutSafe ==
    [][\A w \in Workers :
          (pc[w] = "del" /\ pc'[w] = "idle") =>
              (/\ last'.outcome = "redirect"
               /\ req_cookie[w] \notin DOMAIN active_sessions')]_vars

(* ==================== properties of the workflow ====================== *)
\* C10: a Scan is created pending; its status changes only by the steps
\* pending -> ready_for_review (Technician) and ready_for_review -> reviewed
\* (Physician); a request to skip, to stay or to move backward fails with
\* InvalidTransition, a request for a permitted step by another role fails
\* with Forbidden, and a failed request leaves the status unchanged.
C10_ScanStatusMovesForward ==
    [][/\ Len(scans') > Len(scans) => scans'[Len(scans')] = "pending"
       /\ \A id \in 1..Len(scans) :
              scans'[id] # scans[id] =>
                  \/ /\ scans[id] = "pending" /\ scans'[id] = "ready_for_review"
                     /\ flow_last'.role = "Technician"
                  \/ /\ scans[id] = "ready_for_review" /\ scans'[id] = "reviewed"
                     /\ flow_last'.role = "Physician"
       /\ flow_last'.op = "transition" =>
              LET from == scans[flow_last'.scan]
                  to == flow_last'.requested
                  forward == \/ from = "pending" /\ to = "ready_for_review"
                             \/ from = "ready_for_review" /\ to = "reviewed"
                  rightRole == \/ to = "ready_for_review" /\ flow_last'.role = "Technician"
                               \/ to = "reviewed" /\ flow_last'.role = "Physician"
              IN  /\ ~forward => flow_last'.outcome = "InvalidTransition"
                  /\ (forward /\ ~rightRole) => flow_last'.outcome = "Forbidden"
                  /\ (forward /\ rightRole) =>
                         (flow_last'.outcome = "ok" /\ scans'[flow_last'.scan] = to)
                  /\ flow_last'.outcome # "ok" => scans' = scans]_vars

C10_Witness ==
    /\ flow_last.op = "transition" /\ flow_last.outcome = "InvalidTransition"
    /\ flow_last.from = "pending" /\ flow_last.requested = "reviewed"
    /\ \E id \in 1..Len(scans) : scans[id] = "reviewed"

\* C11: a TreatmentPlan's status changes only by the steps draft ->
\* approved and approved -> implemented; a request for approved -> draft or
\* draft -> implemented, and any request on an implemented plan, fails with
\* InvalidTransition and leaves the status unchanged.
C11_PlanStatusMovesForward ==
    [][/\ \A id \in 1..Len(plans) :
              plans'[id].status # plans[id].status =>
                  \/ plans[id].status = "draft" /\ plans'[id].status = "approved"
                  \/ plans[id].status = "approved" /\ plans'[id].status = "implemented"
       /\ flow_last'.op = "planTransition" =>
              LET from == plans[flow_last'.scan].status
                  to == flow_last'.requested
              IN  (\/ from = "approved" /\ to = "draft"
                   \/ from = "draft" /\ to = "implemented"
                   \/ from = "implemented") =>
                      (flow_last'.outcome = "InvalidTransition" /\ plans' = plans)]_vars

C11_Witness ==
    /\ flow_last.op = "planTransition" /\ flow_last.outcome = "InvalidTransition"
    /\ flow_last.from = "approved" /\ flow_last.requested = "draft"
    /\ plans[flow_last.scan].status = "approved"

\* the account with this username, NULL when there is none
AccountNamed(us, username) ==
    First({i \in 1..Len(us) : us[i].username = username})

\* exactly one account is added to users: the one given
OneAccountAdded(username, password, role) ==
    /\ Len(users') = Len(users) + 1
    /\ \A i \in 1..Len(users) : users'[i] = users[i]
    /\ users'[Len(users')].username = username
    /\ users'[Len(users')].password = password
    /\ users'[Len(users')].role = role

\* C16: registerStaff with a role outside {Technician, Physician} fails
\* with InvalidRole and creates no account, whether or not the username is
\* taken; with a role in that set and a new username it creates exactly one
\* account with that role and changes no ClinicalRecord.
C16_RegisterStaffChecksRoleFirst ==
    [][last'.op = "registerStaff" =>
          /\ last'.role \notin {"Technician", "Physician"} =>
                 /\ last'.outcome = "InvalidRole"
                 /\ users' = users /\ patients' = patients
          /\ (/\ last'.role \in {"Technician", "Physician"}
              /\ AccountNamed(users, last'.username) = NULL) =>
                 /\ last'.outcome = "created"
                 /\ OneAccountAdded(last'.username, last'.password, last'.role)
                 /\ patients' = patients]_vars

C16_Witness ==
    /\ last.op = "registerStaff" /\ last.role = "Patient"
    /\ last.outcome = "InvalidRole"
    /\ AccountNamed(users, last.username) # NULL
    /\ \E i \in 1..Len(users) : users[i].role = "Physician"

\* C17: register with a new username and a linking code that matches no
\* ClinicalRecord creates the Patient account, reports pending link and
\* changes no ClinicalRecord; the Patient login with those credentials that
\* follows fails with NoLinkedRecord.
C17_UnmatchedCodeIsPendingLink ==
    [][/\ (/\ last'.op = "register"
           /\ AccountNamed(users, last'.username) = NULL
           /\ \A p \in 1..Len(patients) : patients[p].code # last'.code) =>
              /\ last'.outcome = "pending link"
              /\ OneAccountAdded(last'.username, last'.password, "Patient")
              /\ patients' = patients
       /\ (/\ last.op = "register" /\ last.outcome = "pending link"
           /\ last'.op = "login" /\ last'.role = "Patient"
           /\ last'.username = last.username
           /\ last'.password = last.password) =>
              /\ last'.outcome = "NoLinkedRecord"
              /\ last'.redirect = NoRedirect]_vars

C17_Witness ==
    /\ last.op = "login" /\ last.outcome = "NoLinkedRecord"
    /\ last.role = "Patient"
    /\ AccountNamed(users, last.username) # NULL
    /\ \A p \in 1..Len(patients) : patients[p].linked_user_id = NULL

\* C18: a successful login is sent where its role says: a Patient to the
\* record view of the code of the ClinicalRecord linked to the account, a
\* Technician and a Physician to their dashboards; the token of the
\* response is the one just stored, with the identity of the account.
C18_RedirectFollowsRole ==
    [][(last'.op = "login" /\ last'.outcome = "redirect") =>
          LET uid == AccountNamed(users, last'.username)
          IN  /\ uid # NULL /\ users[uid].role = last'.role
              /\ last'.role = "Technician" =>
                     last'.redirect = <<"/technician-dashboard">>
              /\ last'.role = "Physician" =>
                     last'.redirect = <<"/physician-dashboard">>
              /\ last'.role = "Patient" =>
                     \E p \in 1..Len(patients) :
                         /\ patients[p].linked_user_id = uid
                         /\ last'.redirect = <<"/patient-view?code=", patients[p].code>>
              /\ last'.session_id \notin DOMAIN active_sessions
              /\ last'.session_id \in DOMAIN active_sessions'
              /\ active_sessions'[last'.session_id] =
                     [user_id |-> uid, username |-> last'.username,
                      role |-> last'.role]]_vars

C18_Witness ==
    /\ last.op = "login" /\ last.outcome = "redirect" /\ last.role = "Patient"
    /\ last.redirect = <<"/patient-view?code=", "P-001">>
    /\ last.session_id \in DOMAIN active_sessions
    /\ \E t \in DOMAIN active_sessions : active_sessions[t].role = "Technician"

\* C19: a stored session stays in the store, unchanged, until logout is
\* called with its token: no other request removes or alters it.
C19_SessionKeptUntilLogout ==
    [][\A t \in DOMAIN active_sessions :
           ~(last'.op = "logout" /\ last'.cookie = t) =>
               /\ t \in DOMAIN active_sessions'
               /\ active_sessions'[t] = active_sessions[t]]_vars

C19_Witness ==
    /\ last.op = "login" /\ last.outcome = "redirect"
    /\ \E t \in DOMAIN active_sessions :
           /\ t # last.session_id
           /\ active_sessions[t] = active_sessions[last.session_id]

\* C20: every entry of the session store is the identity of an existing
\* account, its role is one of the three roles, and a Patient entry's
\* account has a ClinicalRecord linked to it.
C20_SessionsAreLinkedAccounts ==
    \A t \in DOMAIN active_sessions :
        LET e == active_sessions[t]
        IN  /\ e.user_id \in 1..Len(users)
            /\ users[e.user_id].username = e.username
            /\ users[e.user_id].role = e.role
            /\ e.role \in {"Patient", "Technician", "Physician"}
            /\ e.role = "Patient" =>
                   \E p \in 1..Len(patients) : patients[p].linked_user_id = e.user_id

\* C24: a TreatmentPlan is created with status draft, only for a Scan whose
\* status is ready_for_review or reviewed, and no Scan ever has two plans.
C24_PlanCreatedAsDraftOncePerScan ==
    [][/\ Len(plans') > Len(plans) =>
              LET new == plans'[Len(plans')]
              IN  /\ Len(plans') = Len(plans) + 1
                  /\ new.status = "draft"
                  /\ new.scan_id \in 1..Len(scans)
                  /\ scans[new.scan_id] \in {"ready_for_review", "reviewed"}
                  /\ \A p \in 1..Len(plans) : plans[p].scan_id # new.scan_id
       /\ \A p, q \in 1..Len(plans') :
              plans'[p].scan_id = plans'[q].scan_id => p = q]_vars

C24_Witness ==
    /\ flow_last.op = "createPlan" /\ Len(plans) = 2
    /\ plans[2].status = "draft" /\ scans[plans[2].scan_id] = "reviewed"
    /\ plans[1].status = "approved" /\ plans[1].scan_id # plans[2].scan_id

(* ------------------- generate and refine a treatment plan ------------- *)
\* get_chatgpt_service, lines 261-266: the instance is built on first use
\* from the environment of the process
get_chatgpt_service(env) ==
    /\ ~service.built
    /\ service' = ChatGPTTreatmentPlanService(env)
    /\ UNCHANGED gen

\* a call that sends the request a second time
Calling_Retry(call, silent) ==
    [call EXCEPT !.pc = "calling", !.calls = call.calls + 2, !.silent = silent]

\* the state of a call that has reached openai.ChatCompletion.create
\* (lines 81 and 232); the code passes no timeout to it
Calling(call, silent) ==
    [call EXCEPT !.pc = "calling", !.calls = call.calls + 1, !.silent = silent]

\* generate_treatment_plan up to the external call: the key test of lines
\* 70-71, then the prompt built from patient_data (lines 75-78)
generate_treatment_plan(patient_data, context, is_eligible, silent) ==
    LET call == [NoCall EXCEPT !.op = "generate", !.is_eligible = is_eligible,
                               !.patient_data = patient_data,
                               !.context = IF patient_data = "None"
                                           THEN NoContext ELSE context,
                               !.calls = gen.calls]
        prompt == IF is_eligible THEN _create_tpa_eligible_prompt(context)
                  ELSE _create_not_eligible_prompt(context)
    IN  /\ service.built
        /\ gen.pc # "calling"
        /\ gen.calls < MaxCalls
        /\ gen' = IF service.api_key = NoKey
                  THEN Finish(call, "-", NotConfiguredText)
                  ELSE IF patient_data = "None"
                  THEN Finish(call, "AttributeError", <<>>)
                  ELSE Calling([call EXCEPT !.prompt = prompt], silent)
        /\ UNCHANGED service

\* refine_treatment_plan up to the external call: the key test of lines
\* 213-214, then the f-string prompt of lines 217-230
refine_treatment_plan(silent) ==
    LET call == [NoCall EXCEPT !.op = "refine", !.calls = gen.calls]
    IN  /\ service.built
        /\ gen.pc # "calling"
        /\ gen.calls < MaxCalls
        /\ gen' = IF service.api_key = NoKey
                  THEN Finish(call, "-", NotConfiguredText)
                  ELSE Calling(call, silent)
        /\ UNCHANGED service

\* the external call ends: lines 97-102 and 248-253 strip and clean the
\* content of the first choice, lines 104-105 and 255-256 handle a failure
GeneratorResponds(ans) ==
    /\ gen.pc = "calling"
    /\ ~gen.silent
    /\ gen' = IF ans.kind = "text"
              THEN Finish(gen, "-", CleanedContent[ans.raw])
              ELSE Finish(gen, ans.exc, <<>>)
    /\ UNCHANGED service

GetService ==
    /\ \E env \in EnvKeys : get_chatgpt_service(env)
    /\ UNCHANGED <<authVars, concVars, flowVars, mdVars, regVars>>

Generate ==
    /\ \E patient_data \in {"present", "None"}, is_eligible \in BOOLEAN,
          silent \in BOOLEAN :
           \E context \in (IF patient_data = "None" THEN {NoContext} ELSE Contexts) :
               generate_treatment_plan(patient_data, context, is_eligible, silent)
    /\ UNCHANGED <<authVars, concVars, flowVars, mdVars, regVars>>

Refine ==
    /\ \E silent \in BOOLEAN : refine_treatment_plan(silent)
    /\ UNCHANGED <<authVars, concVars, flowVars, mdVars, regVars>>

Respond ==
    /\ \E ans \in GeneratorAnswers : GeneratorResponds(ans)
    /\ UNCHANGED <<authVars, concVars, flowVars, mdVars, regVars>>

NextGen ==
    \/ GetService
    \/ Generate
    \/ Refine
    \/ Respond

SpecGen == Init /\ [][NextGen]_vars

\* every step of the service that can be taken is eventually taken
SpecGenFair == SpecGen /\ WF_vars(NextGen)

Unconfigured == service.built /\ service.env \in {NoEnv, "", PlaceholderKey}
Configured == service.built /\ ~Unconfigured

\* C12: with the key absent, empty or the placeholder, generate and refine
\* return the fixed not-configured text, never raise and never reach the
\* external generator, whatever the arguments.
C12_UnconfiguredReturnsSentinel ==
    (Unconfigured /\ gen.op # "-") =>
        /\ gen.pc = "returned"
        /\ gen.result = NotConfiguredText
        /\ gen.calls = 0

C12_Witness ==
    /\ service.env = PlaceholderKey
    /\ gen.op = "refine" /\ gen.pc = "returned" /\ gen.result = NotConfiguredText

\* C13: with a key set, no failure leaves generate or refine as an
\* exception: a call that has ended has returned, and after a failure it
\* has returned the error text of its operation.
C13_FailureReturnsErrorText ==
    Configured =>
        /\ gen.pc # "raised"
        /\ (gen.pc = "returned" /\ gen.failure # "-") =>
               /\ Len(gen.result) = 2
               /\ gen.result[2] = gen.failure
               /\ gen.result[1] = (IF gen.op = "generate"
                                   THEN "Error generating treatment plan: "
                                   ELSE "Error refining treatment plan: ")

C13_Witness ==
    /\ Configured /\ gen.op = "refine" /\ gen.pc = "returned"
    /\ gen.failure = "IndexError" /\ gen.calls = 1

\* C14: every generate or refine call that has reached the external
\* generator eventually returns.
C14_EveryCallReturns == (gen.pc = "calling") ~> (gen.pc = "returned")

\* a generate or refine request is taken up in this step
CallStarts == gen.pc # "calling" /\ gen'.op # "-" /\ gen'.calls >= gen.calls

\* C22 as stated: a call sends at most one request to the generator:
\* exactly one when the service is configured, none when it is not, and
\* none after a failure.
C22_OneRequestWhenConfigured ==
    [][/\ gen'.calls \in {gen.calls, gen.calls + 1}
       /\ gen.pc = "calling" => gen'.calls = gen.calls
       /\ (CallStarts /\ Unconfigured) => gen'.calls = gen.calls
       /\ (CallStarts /\ Configured) => gen'.calls = gen.calls + 1]_vars

\* C22 as amended: a call sends at most one request to the generator:
\* exactly one when the service is configured and the prompt could be
\* built, none when the service is not configured or building the prompt
\* failed, and none after a failure of the request.
C22_OneRequestWhenPromptBuilt ==
    [][/\ gen'.calls \in {gen.calls, gen.calls + 1}
       /\ gen.pc = "calling" =>
              (gen'.calls = gen.calls /\ gen'.pc = "returned")
       /\ (CallStarts /\ Unconfigured) => gen'.calls = gen.calls
       /\ (CallStarts /\ Configured /\ gen'.patient_data # "None") =>
              (gen'.calls = gen.calls + 1 /\ gen'.pc = "calling")
       /\ (CallStarts /\ Configured /\ gen'.patient_data = "None") =>
              (gen'.calls = gen.calls /\ gen'.pc = "returned"
               /\ gen'.failure = "AttributeError")]_vars

C22_Witness ==
    /\ Configured /\ gen.pc = "returned" /\ gen.failure = "APIError"
    /\ gen.op = "generate" /\ gen.calls = 1

\* C23: generate takes the tPA-eligible template when is_eligible is true
\* and the not-eligible template otherwise, and in the prompt every
\* clinical field without a value in the context reads N/A.
C23_MissingFieldsRenderNA ==
    (gen.op = "generate" /\ gen.prompt.template # "-") =>
        /\ gen.prompt.template =
               (IF gen.is_eligible THEN "tpa_eligible" ELSE "not_eligible")
        /\ \A f \in Fields :
               gen.context[f] # "value" => gen.prompt.fields[f] = "N/A"

(* ------------------------- _clean_markdown passes --------------------- *)
\* the pieces the texts are built from: heading, emphasis, list and
\* numbered-list markers, code fence and inline code, a link, white space
MdTokens ==
    {<<"#">>, <<"*", "*">>, <<"*">>, <<"_">>, <<"-", " ">>, <<"1", ".", " ">>,
     <<Backtick, Backtick, Backtick>>, <<Backtick>>,
     <<"[", "a", "]", "(", "b", ")">>, <<"\n">>, <<" ">>, <<"a">>}

RECURSIVE Concat(_)
Concat(ts) == IF ts = <<>> THEN <<>> ELSE Head(ts) \o Concat(Tail(ts))

MdInputs ==
    {Concat(ts) : ts \in UNION {[1..n -> MdTokens] : n \in 0..MaxTokens}}

InitClean ==
    /\ users = <<>>
    /\ patients = [i \in 1..MaxRecords |-> Patient(CodeOf[i])]
    /\ active_sessions = NoSessions
    /\ last = NoResponse
    /\ pc = [w \in Workers |-> "idle"]
    /\ req_cookie = [w \in Workers |-> NoCookie]
    /\ scans = <<>>
    /\ plans = <<>>
    /\ flow_last = NoFlowResponse
    /\ md_text \in MdInputs
    /\ md_prev = <<>>
    /\ md_passes = 0
    /\ service = NoService
    /\ gen = NoCall
    /\ reg = [w \in Workers |-> NoRequest]

CleanPass ==
    /\ md_passes < MaxPasses
    /\ md_prev' = md_text
    /\ md_text' = _clean_markdown(md_text)
    /\ md_passes' = md_passes + 1

NextClean ==
    \/ CleanPass /\ UNCHANGED <<authVars, concVars, flowVars, genVars, regVars>>

SpecClean == InitClean /\ [][NextClean]_vars

\* C15: the markdown-stripping pass is idempotent: a second pass over the
\* result of the first changes nothing.
C15_CleanIdempotent == md_passes = 2 => md_text = md_prev

====
